---- MODULE Spec2Model ----
(***************************************************************************)
(* A model of sbw_convert.py: the format sniffer and the two decoders of   *)
(* Savings Bond Wizard inventory files (text "SBW 2"/"SBW 3" and binary    *)
(* "CBond" v4), the months-since-epoch date codec, and the CSV writer.     *)
(*                                                                         *)
(* A file is a sequence of bytes (0..255), a Python str a sequence of code *)
(* points.  The file object is the pair (src, pos).                        *)
(***************************************************************************)
EXTENDS Integers, Sequences, FiniteSets, TLC

VARIABLES
    entry,      \* the function the caller invokes
    input,      \* how the bytes of src were built (read by the claims only)
    exists,     \* os.path.isfile(filename)
    src,        \* the bytes of the file
    pos,        \* fp's read position
    pc,         \* the statement the call is at
    version,    \* gb_doc_sbw_open's local `version`
    first_line, \* gb_doc_sbw_open's local `first_line`
    status,     \* status.code
    doc,        \* the GBDoc being built: [title, bonds]
    n,          \* the record count read from the file
    i,          \* the loop index of the decoder
    ret,        \* what the call gave: "running", "doc", "None" or "raise"
    exc,        \* the exception that left the call, "" when none
    csv,        \* the rows GBDoc.to_csv wrote, <<>> before it ran
    peak,       \* the furthest position fp reached while sniffing
    fmt         \* the text gb_date_fmt gave, <<>> before it ran

vars == <<entry, input, exists, src, pos, pc, version, first_line, status,
          doc, n, i, ret, exc, csv, peak, fmt>>

-----------------------------------------------------------------------------
(* Characters *)

AsciiPrintable ==
    << " ", "!", "\"", "#", "$", "%", "&", "'", "(", ")", "*", "+", ",", "-",
       ".", "/", "0", "1", "2", "3", "4", "5", "6", "7", "8", "9", ":", ";",
       "<", "=", ">", "?", "@", "A", "B", "C", "D", "E", "F", "G", "H", "I",
       "J", "K", "L", "M", "N", "O", "P", "Q", "R", "S", "T", "U", "V", "W",
       "X", "Y", "Z", "[", "\\", "]", "^", "_", "(grave)", "a", "b", "c", "d", "e",
       "f", "g", "h", "i", "j", "k", "l", "m", "n", "o", "p", "q", "r", "s",
       "t", "u", "v", "w", "x", "y", "z", "{", "|", "}", "~" >>

\* The code point of a printable ASCII character.
Ord(c) == 31 + CHOOSE k \in 1..Len(AsciiPrintable) : AsciiPrintable[k] = c

\* The code points of a literal written as a tuple of characters.
Lit(s) == [k \in 1..Len(s) |-> Ord(s[k])]

Min(a, b) == IF a < b THEN a ELSE b

RECURSIVE Pow(_, _)
Pow(b, e) == IF e = 0 THEN 1 ELSE b * Pow(b, e - 1)

\* str(k) of a non-negative int.
RECURSIVE DecStr(_)
DecStr(k) == IF k < 10 THEN <<48 + k>> ELSE DecStr(k \div 10) \o <<48 + (k % 10)>>

RECURSIVE Zeros(_)
Zeros(k) == IF k <= 0 THEN <<>> ELSE <<48>> \o Zeros(k - 1)

-----------------------------------------------------------------------------
(* Error codes, sbw_convert.py:12-18 *)

SBW4_CBOND_SIZE == 5
GB_OK == 0
GB_ERROR_OPEN_SBW_CANNOT_OPEN_FILE == 1
GB_ERROR_OPEN_SBW_BAD_MAGIC == 2
GB_ERROR_OPEN_SBW_PARSE == 3

\* SBW4_EPOCH = datetime(1941, 4, 1)
SBW4_EPOCH == [year |-> 1941, month |-> 4, day |-> 1]

\* datetime.MAXYEAR: datetime.replace raises ValueError above it.
MAXYEAR == 9999

-----------------------------------------------------------------------------
(* The date codec *)

\* relativedelta(months=m) after its normalisation: more than 11 months
\* carry into years (divmod by 12; m is never negative here).
relativedelta(m) ==
    IF m > 11 THEN [years |-> m \div 12, months |-> m % 12]
              ELSE [years |-> 0, months |-> m]

\* A faulty variant: the carry of a month past December into the year is lost.
DatePlusNoCarry(date, delta) ==
    LET month0 == date.month + delta.months
    IN  [year  |-> date.year + delta.years,
         month |-> IF month0 > 12 THEN month0 - 12 ELSE month0,
         day   |-> date.day]

\* datetime + relativedelta: the years are added, then the months, a month
\* past 12 carrying one year; the day is kept (day 1 exists in every month).
DatePlus(date, delta) ==
    LET year0  == date.year + delta.years
        month0 == date.month + delta.months
    IN  [year  |-> IF month0 > 12 THEN year0 + 1 ELSE year0,
         month |-> IF month0 > 12 THEN month0 - 12 ELSE month0,
         day   |-> date.day]

\* date.strftime of month/year (%m/%Y) for a year of four digits.
strftime_mY(date) ==
    (IF date.month < 10 THEN <<48>> ELSE <<>>) \o DecStr(date.month)
        \o <<47>> \o DecStr(date.year)

\* gb_date_fmt(months_since_epoch): the text, or the ValueError that
\* datetime raises for a year past MAXYEAR.
gb_date_fmt(months_since_epoch) ==
    LET date == DatePlus(SBW4_EPOCH, relativedelta(months_since_epoch))
    IN  IF date.year > MAXYEAR
        THEN [ok |-> FALSE, exc |-> "ValueError", text |-> <<>>]
        ELSE [ok |-> TRUE, exc |-> "", text |-> strftime_mY(date)]

-----------------------------------------------------------------------------
(* The file object: fp.read, fp.readline, struct.unpack *)

\* fp.read(k) at position p: at most k bytes, fewer at the end of the file,
\* none past it.
Read(bytes, p, k) == SubSeq(bytes, p + 1, Min(p + k, Len(bytes)))

\* The position after fp.read(k).
AfterRead(bytes, p, k) == p + Len(Read(bytes, p, k))

\* The index of the byte that ends the line starting after position p: the
\* first newline, or the last byte of the file.
LineEnd(bytes, p) ==
    LET nl == {k \in (p + 1)..Len(bytes) : bytes[k] = 10}
    IN  IF nl = {} THEN Len(bytes) ELSE CHOOSE k \in nl : \A j \in nl : k <= j

\* fp.readline() at position p: through the newline, or to the end.
ReadLine(bytes, p) == SubSeq(bytes, p + 1, LineEnd(bytes, p))

AfterReadLine(bytes, p) == p + Len(ReadLine(bytes, p))

\* One little-endian field of struct.unpack, at 1-based index k (the files
\* drawn hold no 32-bit field of 2^31 or more, the integers here ending
\* at 2^31 - 1).
U16(bytes, k) == bytes[k] + 256 * bytes[k + 1]

U32(bytes, k) ==
    bytes[k] + 256 * bytes[k + 1] + 65536 * bytes[k + 2] + 16777216 * bytes[k + 3]

\* bytes.startswith(prefix)
StartsWith(bytes, prefix) ==
    /\ Len(bytes) >= Len(prefix)
    /\ SubSeq(bytes, 1, Len(prefix)) = prefix

-----------------------------------------------------------------------------
(* bytes.decode('utf-8') *)

\* The length of the well-formed UTF-8 sequence starting at index k, 0 when
\* the bytes there are not one (the decoder then raises UnicodeDecodeError).
Utf8Len(b, k) ==
    LET c       == b[k]
        has(j)  == k + j <= Len(b)
        at(j)   == b[k + j]
        cont(j) == has(j) /\ at(j) \in 128..191
    IN  CASE c < 128 -> 1
          [] c \in 194..223 -> IF cont(1) THEN 2 ELSE 0
          [] c = 224 -> IF has(1) /\ at(1) \in 160..191 /\ cont(2) THEN 3 ELSE 0
          [] c \in (225..236) \cup (238..239) -> IF cont(1) /\ cont(2) THEN 3 ELSE 0
          [] c = 237 -> IF has(1) /\ at(1) \in 128..159 /\ cont(2) THEN 3 ELSE 0
          [] c = 240 ->
                IF has(1) /\ at(1) \in 144..191 /\ cont(2) /\ cont(3) THEN 4 ELSE 0
          [] c \in 241..243 -> IF cont(1) /\ cont(2) /\ cont(3) THEN 4 ELSE 0
          [] c = 244 ->
                IF has(1) /\ at(1) \in 128..143 /\ cont(2) /\ cont(3) THEN 4 ELSE 0
          [] OTHER -> 0

\* The code point of the sequence of length len at index k.
Utf8Point(b, k, len) ==
    CASE len = 1 -> b[k]
      [] len = 2 -> (b[k] - 192) * 64 + (b[k + 1] - 128)
      [] len = 3 -> (b[k] - 224) * 4096 + (b[k + 1] - 128) * 64 + (b[k + 2] - 128)
      [] len = 4 -> (b[k] - 240) * 262144 + (b[k + 1] - 128) * 4096
                        + (b[k + 2] - 128) * 64 + (b[k + 3] - 128)

RECURSIVE Utf8ValidFrom(_, _)
Utf8ValidFrom(b, k) ==
    \/ k > Len(b)
    \/ Utf8Len(b, k) > 0 /\ Utf8ValidFrom(b, k + Utf8Len(b, k))

RECURSIVE Utf8TextFrom(_, _)
Utf8TextFrom(b, k) ==
    IF k > Len(b) THEN <<>>
    ELSE <<Utf8Point(b, k, Utf8Len(b, k))>> \o Utf8TextFrom(b, k + Utf8Len(b, k))

\* b.decode('utf-8'): the str, or UnicodeDecodeError.
Utf8Decode(b) ==
    IF Utf8ValidFrom(b, 1) THEN [ok |-> TRUE, text |-> Utf8TextFrom(b, 1)]
                           ELSE [ok |-> FALSE, text |-> <<>>]

-----------------------------------------------------------------------------
(* str and bytes methods *)

\* What bytes.strip() removes: the ASCII whitespace.
BytesSpace == {9, 10, 11, 12, 13, 32}

\* What str.strip() removes: the characters str.isspace() holds of.
StrSpace ==
    (9..13) \cup (28..32) \cup {133, 160, 5760} \cup (8192..8202)
        \cup {8232, 8233, 8239, 8287, 12288}

QuoteChars == {34}

RECURSIVE LStrip(_, _)
LStrip(s, chars) ==
    IF s # <<>> /\ s[1] \in chars THEN LStrip(Tail(s), chars) ELSE s

RECURSIVE RStrip(_, _)
RStrip(s, chars) ==
    IF s # <<>> /\ s[Len(s)] \in chars
    THEN RStrip(SubSeq(s, 1, Len(s) - 1), chars) ELSE s

\* s.strip() with the given character set.
Strip(s, chars) == RStrip(LStrip(s, chars), chars)

\* str.upper() of one character, on the code points below U+0180 whose
\* upper case is ASCII or that are ASCII; every other one is kept (the
\* sources drawn hold no other cased letter).
UpperChar(c) ==
    CASE c \in 97..122 -> <<c - 32>>
      [] c = 223 -> <<83, 83>>
      [] c = 305 -> <<73>>
      [] c = 383 -> <<83>>
      [] OTHER -> <<c>>

RECURSIVE Upper(_)
Upper(s) == IF s = <<>> THEN <<>> ELSE UpperChar(s[1]) \o Upper(Tail(s))

\* ASCII lower case, as float() compares "inf" and "nan".
RECURSIVE Lower(_)
Lower(s) ==
    IF s = <<>> THEN <<>>
    ELSE <<IF s[1] \in 65..90 THEN s[1] + 32 ELSE s[1]>> \o Lower(Tail(s))

\* The index of the first occurrence of c in s, 0 when there is none.
Find(s, c) ==
    LET at == {k \in 1..Len(s) : s[k] = c}
    IN  IF at = {} THEN 0 ELSE CHOOSE k \in at : \A j \in at : k <= j

\* s.split(sep, maxsplit)
RECURSIVE Split(_, _, _)
Split(s, sep, maxsplit) ==
    IF maxsplit = 0 \/ Find(s, sep) = 0 THEN <<s>>
    ELSE <<SubSeq(s, 1, Find(s, sep) - 1)>>
            \o Split(SubSeq(s, Find(s, sep) + 1, Len(s)), sep, maxsplit - 1)

-----------------------------------------------------------------------------
(* int(str) and float(x) *)

DigitChars == 48..57

\* digit (["_"] digit)*
IsDigitPart(s) ==
    /\ s # <<>>
    /\ s[1] \in DigitChars
    /\ s[Len(s)] \in DigitChars
    /\ \A k \in 1..Len(s) : s[k] \in DigitChars \cup {95}
    /\ \A k \in 1..(Len(s) - 1) : ~(s[k] = 95 /\ s[k + 1] = 95)

IsDigitChar(c) == c \in DigitChars

RECURSIVE DecVal(_)
DecVal(s) ==
    IF s = <<>> THEN 0 ELSE 10 * DecVal(SubSeq(s, 1, Len(s) - 1)) + (s[Len(s)] - 48)

\* The value of a digit part, its underscores dropped.
DigitPartVal(s) == DecVal(SelectSeq(s, IsDigitChar))

HasSign(t) == t # <<>> /\ t[1] \in {43, 45}

\* int(text): surrounding whitespace, a sign, decimal digits; ValueError
\* otherwise.
IntParse(text) ==
    LET t    == Strip(text, StrSpace)
        body == IF HasSign(t) THEN Tail(t) ELSE t
    IN  IF IsDigitPart(body)
        THEN [ok |-> TRUE,
              val |-> IF HasSign(t) /\ t[1] = 45 THEN 0 - DigitPartVal(body)
                                                 ELSE DigitPartVal(body)]
        ELSE [ok |-> FALSE, val |-> 0]

\* A float is [kind, neg, mant, exp]: nan, inf, or the finite value
\* (-1)^neg * mant * 10^exp with mant not a multiple of 10 (0 is mant 0,
\* exp 0), so that equal values are equal records.
RECURSIVE Finite(_, _, _)
Finite(neg, mant, exp) ==
    IF mant = 0 THEN [kind |-> "finite", neg |-> neg, mant |-> 0, exp |-> 0]
    ELSE IF mant % 10 = 0 THEN Finite(neg, mant \div 10, exp + 1)
    ELSE [kind |-> "finite", neg |-> neg, mant |-> mant, exp |-> exp]

NotANumber == [kind |-> "nan", neg |-> FALSE, mant |-> 0, exp |-> 0]
Infinity(neg) == [kind |-> "inf", neg |-> neg, mant |-> 0, exp |-> 0]

\* A faulty variant: float() of a str that also takes the empty string, as 0.
FloatParseLenient(text) ==
    LET t == Strip(text, StrSpace)
    IN  IF t = <<>> \/ ~IsDigitPart(t)
        THEN [ok |-> TRUE, val |-> Finite(FALSE, 0, 0)]
        ELSE [ok |-> TRUE, val |-> Finite(FALSE, DigitPartVal(t), 0)]

\* float(text): whitespace, a sign, then inf, infinity or nan in any case,
\* or digits with an optional fraction and an optional exponent; ValueError
\* otherwise.  The value is the decimal one (texts of at most 15
\* significant digits, where the double and the decimal print alike).
FloatParse(text) ==
    LET t     == Strip(text, StrSpace)
        neg   == HasSign(t) /\ t[1] = 45
        body  == IF HasSign(t) THEN Tail(t) ELSE t
        low   == Lower(body)
        ePos  == Find(low, 101)
        mpart == IF ePos = 0 THEN body ELSE SubSeq(body, 1, ePos - 1)
        xpart == IF ePos = 0 THEN <<>> ELSE SubSeq(body, ePos + 1, Len(body))
        xbody == IF HasSign(xpart) THEN Tail(xpart) ELSE xpart
        xval  == IF ePos = 0 THEN 0
                 ELSE IF HasSign(xpart) /\ xpart[1] = 45
                      THEN 0 - DigitPartVal(xbody) ELSE DigitPartVal(xbody)
        dot   == Find(mpart, 46)
        ipart == IF dot = 0 THEN mpart ELSE SubSeq(mpart, 1, dot - 1)
        fpart == IF dot = 0 THEN <<>> ELSE SubSeq(mpart, dot + 1, Len(mpart))
        fdig  == SelectSeq(fpart, IsDigitChar)
        wellFormed ==
            /\ ipart # <<>> \/ fpart # <<>>
            /\ ipart = <<>> \/ IsDigitPart(ipart)
            /\ fpart = <<>> \/ IsDigitPart(fpart)
            /\ ePos = 0 \/ IsDigitPart(xbody)
    IN  CASE low \in {Lit(<<"i", "n", "f">>),
                      Lit(<<"i", "n", "f", "i", "n", "i", "t", "y">>)} ->
                [ok |-> TRUE, val |-> Infinity(neg)]
          [] low = Lit(<<"n", "a", "n">>) -> [ok |-> TRUE, val |-> NotANumber]
          [] OTHER ->
                IF wellFormed
                THEN [ok |-> TRUE,
                      val |-> Finite(neg,
                                     DecVal(SelectSeq(ipart, IsDigitChar) \o fdig),
                                     xval - Len(fdig))]
                ELSE [ok |-> FALSE, val |-> NotANumber]

\* float(x) of gb_doc_bond_new's denom: a str in the text decoder, an int
\* (always convertible) in the binary one.
float(x) ==
    IF x.type = "int" THEN [ok |-> TRUE, val |-> Finite(x.val < 0, IF x.val < 0 THEN 0 - x.val ELSE x.val, 0)]
    ELSE FloatParse(x.val)

\* repr(f), which csv.writer writes for a float: fixed notation while the
\* decimal point lies within the digits' reach, else an exponent.
FloatRepr(f) ==
    LET digits == DecStr(f.mant)
        d      == Len(digits)
        decpt  == d + f.exp
        x      == decpt - 1
        sign   == IF f.neg THEN <<45>> ELSE <<>>
        fixed  ==
            IF decpt <= 0 THEN <<48, 46>> \o Zeros(0 - decpt) \o digits
            ELSE IF decpt < d
                 THEN SubSeq(digits, 1, decpt) \o <<46>> \o SubSeq(digits, decpt + 1, d)
                 ELSE digits \o Zeros(decpt - d) \o <<46, 48>>
        expo   ==
            <<digits[1]>> \o (IF d > 1 THEN <<46>> \o Tail(digits) ELSE <<>>)
                \o <<101>> \o (IF x < 0 THEN <<45>> ELSE <<43>>)
                \o (IF (IF x < 0 THEN 0 - x ELSE x) < 10 THEN <<48>> ELSE <<>>)
                \o DecStr(IF x < 0 THEN 0 - x ELSE x)
    IN  CASE f.kind = "nan" -> Lit(<<"n", "a", "n">>)
          [] f.kind = "inf" -> sign \o Lit(<<"i", "n", "f">>)
          [] OTHER -> sign \o (IF decpt <= -4 \/ decpt > 16 THEN expo ELSE fixed)

-----------------------------------------------------------------------------
(* The document model and its CSV writer *)

\* gb_doc_new()
gb_doc_new == [title |-> <<>>, bonds |-> <<>>]

\* A faulty variant: the failure of float(denom) is not reported, and the bond is
\* made with whatever value there is.
gb_doc_bond_new_unchecked(series, idate, denom, sn) ==
    [ok   |-> TRUE,
     bond |-> [series |-> series, idate |-> idate,
               denom |-> float(denom).val, sn |-> sn]]

\* gb_doc_bond_new(series, idate, denom, sn, status): the GBDocBond with
\* float(denom), or no bond (and status.code = GB_ERROR_OPEN_SBW_PARSE,
\* which the calling action sets) when float raises.
gb_doc_bond_new(series, idate, denom, sn) ==
    [ok   |-> float(denom).ok,
     bond |-> [series |-> series, idate |-> idate,
               denom |-> float(denom).val, sn |-> sn]]

\* One field as csv.writer writes it (QUOTE_MINIMAL): quoted, with its
\* quotes doubled, when it holds the delimiter, a quote, CR or LF.
RECURSIVE DoubleQuotes(_)
DoubleQuotes(s) ==
    IF s = <<>> THEN <<>>
    ELSE (IF s[1] = 34 THEN <<34, 34>> ELSE <<s[1]>>) \o DoubleQuotes(Tail(s))

CsvField(s) ==
    IF \E k \in 1..Len(s) : s[k] \in {44, 34, 13, 10}
    THEN <<34>> \o DoubleQuotes(s) \o <<34>>
    ELSE s

\* writer.writerow(fields), without the line terminator that follows it.
RECURSIVE CsvRow(_)
CsvRow(fields) ==
    IF Len(fields) = 1 THEN CsvField(fields[1])
    ELSE CsvField(fields[1]) \o <<44>> \o CsvRow(Tail(fields))

CsvHeader ==
    << Lit(<<"S", "e", "r", "i", "e", "s">>),
       Lit(<<"D", "e", "n", "o", "m", "i", "n", "a", "t", "i", "o", "n">>),
       Lit(<<"S", "e", "r", "i", "a", "l", " ", "N", "u", "m", "b", "e", "r">>),
       Lit(<<"I", "s", "s", "u", "e", " ", "D", "a", "t", "e">>) >>

\* A faulty variant: the columns in the order of the GBDocBond constructor.
BondRowCtorOrder(bond) ==
    CsvRow(<<bond.series, bond.idate, FloatRepr(bond.denom), bond.sn>>)

\* The row to_csv writes for one bond: series, denom, sn, idate.
BondRow(bond) ==
    CsvRow(<<bond.series, FloatRepr(bond.denom), bond.sn, bond.idate>>)

\* GBDoc.to_csv(include_header=True): the rows written, in order (getvalue
\* joins them, each followed by CR LF).
to_csv(d) ==
    <<CsvRow(CsvHeader)>> \o [k \in 1..Len(d.bonds) |-> BondRow(d.bonds[k])]

-----------------------------------------------------------------------------
(* The files the calls are given *)

\* The most records a binary file holds, and the most record lines a text
\* file holds.
MaxBonds4 == 2
MaxLines2 == 2
\* The months drawn for the date codec alone are 0..MaxMonths and a few
\* far ones.
MaxMonths == 120

RECURSIVE Flatten(_)
Flatten(ss) == IF ss = <<>> THEN <<>> ELSE ss[1] \o Flatten(Tail(ss))

SeqsUpTo(S, len) == UNION {[1..k -> S] : k \in 0..len}

LE16(v) == <<v % 256, v \div 256>>
LE32(v) == <<v % 256, (v \div 256) % 256, (v \div 65536) % 256, v \div 16777216>>

CBond == Lit(<<"C", "B", "o", "n", "d">>)

\* The 12-byte header: six 16-bit fields, the third the record count.
Header4(count) ==
    Flatten([k \in 1..6 |-> LE16(IF k - 1 = 2 THEN count ELSE 300 + k)])

\* The 84-byte block: 21 32-bit fields, index 6 the denomination and
\* index 10 the issue date; the other fields hold values of their own.
Block4(b) ==
    Flatten([k \in 1..21 |->
        LE32(CASE k - 1 = 6 -> b.denom [] k - 1 = 10 -> b.idate
               [] OTHER -> 70000 + k)])

Prefixed(bytes) == <<Len(bytes)>> \o bytes

Record4(b) ==
    Block4(b) \o Prefixed(b.notes) \o Prefixed(b.sn) \o Prefixed(b.series)

\* The two bytes between two records.
Gap4 == <<1, 128>>

Encode4(bonds) ==
    Header4(Len(bonds)) \o CBond
        \o Flatten([k \in 1..Len(bonds) |->
                      Record4(bonds[k]) \o (IF k < Len(bonds) THEN Gap4 ELSE <<>>)])

\* Records of complete, valid files; keep says whether the record is a
\* savings bond of series E, S, EE or I.  The third is none, and its issue
\* date is one no calendar holds.
CoreBonds4 ==
    { [keep |-> TRUE, series |-> Lit(<<"E">>), denom |-> 50, idate |-> 0,
       sn |-> Lit(<<"A", "1">>), notes |-> <<>>],
      [keep |-> TRUE, series |-> Lit(<<"e", "e">>), denom |-> 100, idate |-> 9,
       sn |-> <<>>, notes |-> Lit(<<"h", "i">>)],
      [keep |-> FALSE, series |-> <<>>, denom |-> 25, idate |-> 2000000000,
       sn |-> Lit(<<"C", ",", "3">>), notes |-> Lit(<<"n">>)] }

\* Records that come alone in a file: a series the decoder does not keep,
\* a kept record whose issue date is the last month of year 9999, one a
\* month later, a serial number that is not UTF-8, and a series written
\* with U+017F (whose upper case is S) with the largest denomination drawn.
LoneBonds4 ==
    { [keep |-> FALSE, series |-> Lit(<<"X">>), denom |-> 75, idate |-> 12,
       sn |-> Lit(<<"B", "2">>), notes |-> <<>>],
      [keep |-> TRUE, series |-> Lit(<<"E", "E">>), denom |-> 1000, idate |-> 96704,
       sn |-> Lit(<<"D", "4">>), notes |-> <<>>],
      [keep |-> TRUE, series |-> Lit(<<"I">>), denom |-> 500, idate |-> 96705,
       sn |-> Lit(<<"E", "5">>), notes |-> <<>>],
      [keep |-> TRUE, series |-> Lit(<<"S">>), denom |-> 200, idate |-> 900,
       sn |-> <<255, 65>>, notes |-> <<>>],
      [keep |-> TRUE, series |-> <<197, 191>>, denom |-> 2147483647, idate |-> 24,
       sn |-> Lit(<<"F", "6">>), notes |-> <<>>] }

Files4 ==
    SeqsUpTo(CoreBonds4, MaxBonds4) \cup {<<b>> : b \in LoneBonds4}

\* A binary file cut after any number of its bytes (cut = its length: whole).
Inputs4 ==
    UNION { { [kind |-> "v4", bonds |-> f, cut |-> c] :
                c \in 0..Len(Encode4(f)) } : f \in Files4 }

\* The first line of a text file.
Magic2 == Lit(<<"\"", "S", "B", "W", " ", "2", "\"">>)
Magic3 == Lit(<<"\"", "S", "B", "W", " ", "3", "\"">>)

LF == <<10>>
CRLF == <<13, 10>>

\* A field as a record line writes it: bare, quoted, or quoted with
\* blanks around the quotes.
Decorate(text, deco) ==
    CASE deco = "plain"  -> text
      [] deco = "quoted" -> <<34>> \o text \o <<34>>
      [] deco = "spaced" -> <<32, 34>> \o text \o <<34, 32>>

RECURSIVE Join(_, _)
Join(parts, sep) ==
    IF parts = <<>> THEN <<>>
    ELSE IF Len(parts) = 1 THEN parts[1]
    ELSE parts[1] \o sep \o Join(Tail(parts), sep)

Line2(l) ==
    Join([k \in 1..Len(l.fields) |-> Decorate(l.fields[k], l.deco)], <<44>>) \o l.tail

\* A text file: magic, title, redemption date, count, record lines.
Encode2(f) ==
    f.magic \o f.eol
        \o Lit(<<"\"", "M", "y", " ", "B", "o", "n", "d", "s", "\"">>) \o f.eol
        \o Lit(<<"1", "2", "/", "2", "0", "2", "0">>) \o f.eol
        \o f.count \o f.eol
        \o Flatten([k \in 1..Len(f.lines) |-> Line2(f.lines[k]) \o f.eol])

\* What value holds for a denomination that is not the text of a number.
NoValue == [kind |-> "none", neg |-> FALSE, mant |-> 0, exp |-> 0]

\* Record lines: serial number, denomination, series, issue date.  value
\* is the number the denomination is the text of.
CoreLines2 ==
    { [fields |-> <<Lit(<<"A", "1">>), Lit(<<"5", "0">>), Lit(<<"E">>),
                    Lit(<<"0", "4", "/", "1", "9", "4", "1">>)>>,
       deco |-> "quoted", tail |-> <<>>, value |-> Finite(FALSE, 50, 0)],
      [fields |-> <<Lit(<<"B", "2">>), Lit(<<"2", ".", "5">>), Lit(<<"E", "E">>),
                    Lit(<<"1", "/", "2">>)>>,
       deco |-> "spaced", tail |-> Lit(<<",", "x", ",", "y">>), value |-> Finite(FALSE, 25, -1)],
      [fields |-> <<Lit(<<"C", "3">>), Lit(<<"7", "5">>), Lit(<<"I">>)>>,
       deco |-> "plain", tail |-> <<>>, value |-> Finite(FALSE, 75, 0)],
      [fields |-> <<Lit(<<"D", "4">>), Lit(<<"-", "5">>), Lit(<<"S">>),
                    Lit(<<"1", "2", "/", "1", "9", "5", "0">>)>>,
       deco |-> "plain", tail |-> <<>>, value |-> Finite(TRUE, 5, 0)],
      [fields |-> <<Lit(<<"E", "5">>), Lit(<<"a", "b", "c">>), Lit(<<"E">>),
                    Lit(<<"1", "/", "1">>)>>,
       deco |-> "plain", tail |-> <<>>, value |-> NoValue] }

\* Record lines that come alone in a file.
LoneLines2 ==
    { [fields |-> <<Lit(<<"F", "6">>), Lit(<<"n", "a", "n">>), Lit(<<"E">>),
                    Lit(<<"2", "/", "2">>)>>,
       deco |-> "plain", tail |-> <<>>, value |-> NotANumber],
      [fields |-> <<Lit(<<"G", "7">>), Lit(<<"I", "n", "f">>), Lit(<<"E">>),
                    Lit(<<"3", "/", "3">>)>>,
       deco |-> "quoted", tail |-> <<>>, value |-> Infinity(FALSE)],
      [fields |-> <<Lit(<<"H", "8">>), Lit(<<"1", "e", "2">>), Lit(<<"I">>),
                    Lit(<<"4", "/", "4">>)>>,
       deco |-> "plain", tail |-> <<>>, value |-> Finite(FALSE, 1, 2)],
      [fields |-> <<Lit(<<"x">>), Lit(<<"a", "b", "c">>)>>,
       deco |-> "plain", tail |-> <<>>, value |-> NoValue],
      [fields |-> <<Lit(<<"J", "9">>), <<>>, Lit(<<"E">>), Lit(<<"5", "/", "5">>)>>,
       deco |-> "quoted", tail |-> <<>>, value |-> NoValue] }

\* The counts a file of len record lines announces: len, one less and
\* one more.
Counts2(len) == {c \in {len - 1, len, len + 1} : c >= 0}

\* Count lines of their own: text is the line, announced the count it is
\* the text of, none when it is no integer.
OddCounts2 ==
    { [text |-> Lit(<<" ", "+", "1", " ">>), announced |-> <<1>>],
      [text |-> Lit(<<"0", "_", "1">>), announced |-> <<1>>],
      [text |-> Lit(<<"-", "1">>), announced |-> <<-1>>],
      [text |-> Lit(<<"x">>), announced |-> <<>>],
      [text |-> Lit(<<"1", ".", "0">>), announced |-> <<>>],
      [text |-> <<>>, announced |-> <<>>],
      [text |-> <<255>>, announced |-> <<>>] }

\* announced is <<k>> for a count line that is the text of k, <<>> for
\* one that is no integer.
Inputs2 ==
    UNION { { [kind |-> "v2", magic |-> Magic2, eol |-> LF, count |-> DecStr(c),
               announced |-> <<c>>, lines |-> ls] :
                c \in Counts2(Len(ls)) } :
            ls \in SeqsUpTo(CoreLines2, MaxLines2) \cup {<<l>> : l \in LoneLines2} }
    \cup { [kind |-> "v2", magic |-> Magic3, eol |-> CRLF, count |-> c.text,
            announced |-> c.announced, lines |-> <<l>>] :
                c \in OddCounts2, l \in {l \in CoreLines2 : l.deco = "quoted"} }

\* Other files, as their bytes.
RawFiles ==
    { <<>>,
      Lit(<<"a", "b", "c">>),
      Lit(<<"S", "B", "W", " ", "2">>) \o LF,
      Lit(<<"\"", "S", "B", "W", " ", "4", "\"">>) \o LF,
      Lit(<<"\"", "s", "b", "w", " ", "2", "\"">>) \o LF,
      <<32>> \o Magic2 \o LF \o Lit(<<"T">>) \o LF \o LF \o Lit(<<"0">>) \o LF,
      Magic2 \o <<32>> \o LF \o Lit(<<"T">>) \o LF \o LF \o Lit(<<"0">>) \o LF,
      Magic2 \o Lit(<<"j", "u", "n", "k">>) \o LF \o Lit(<<"T">>) \o LF \o LF
          \o Lit(<<"0">>) \o LF,
      Magic3 \o Lit(<<"x", "x", "x", "x", "x">>) \o CBond,
      Magic2 \o LF \o Lit(<<"\"", "T", "\"">>) \o LF \o CBond \o LF
          \o Lit(<<"0">>) \o LF,
      Magic2 \o LF \o <<255>> \o LF \o LF \o Lit(<<"0">>) \o LF,
      Magic2 \o LF \o Lit(<<"T">>) \o LF \o LF \o Lit(<<"1">>) \o LF
          \o <<65, 44, 49, 44, 69, 44, 195>> \o LF,
      Magic2,
      Header4(0) \o Lit(<<"C", "B", "o", "n">>),
      Header4(1) \o Lit(<<"c", "b", "o", "n", "d">>) }

InputsRaw == {[kind |-> "raw", bytes |-> b] : b \in RawFiles}

\* The bytes of the file an input describes.
Bytes(inp) ==
    CASE inp.kind = "v4" -> SubSeq(Encode4(inp.bonds), 1, inp.cut)
      [] inp.kind = "v2" -> Encode2(inp)
      [] inp.kind = "raw" -> inp.bytes

\* The calls made: each decoder on the files of its format, the entry
\* point gb_doc_sbw_open on every file and on a path that is no file.
Calls ==
    {[entry |-> "read_sbw4", input |-> inp, exists |-> TRUE] :
        inp \in Inputs4 \cup InputsRaw}
    \cup {[entry |-> "read_sbw2", input |-> inp, exists |-> TRUE] :
        inp \in Inputs2 \cup InputsRaw}
    \cup {[entry |-> "gb_doc_sbw_open", input |-> inp, exists |-> TRUE] :
        inp \in Inputs4 \cup Inputs2 \cup InputsRaw}
    \cup {[entry |-> "gb_doc_sbw_open", input |-> [kind |-> "raw", bytes |-> <<>>],
           exists |-> FALSE]}

-----------------------------------------------------------------------------
(* The calls *)

Init ==
    \E c \in Calls :
        /\ entry = c.entry
        /\ input = c.input
        /\ exists = c.exists
        /\ src = Bytes(c.input)
        /\ status = GB_OK
        /\ pos = 0
        /\ pc = "call"
        /\ version = 0
        /\ first_line = <<>>
        /\ doc = gb_doc_new
        /\ n = 0
        /\ i = 0
        /\ ret = "running"
        /\ exc = ""
        /\ csv = <<>>
        /\ peak = 0
        /\ fmt = <<>>

\* return None, with status.code = code
Fail(code) ==
    /\ status' = code
    /\ ret' = "None"
    /\ pc' = "returned"

\* An exception leaves the call; nothing catches it.
Raise(name) ==
    /\ ret' = "raise"
    /\ exc' = name
    /\ pc' = "raised"

(* gb_doc_sbw_open, lines 228-253 *)

\* os.path.isfile(filename), then open(filename, 'rb')
OpenFile ==
    /\ pc = "call" /\ entry = "gb_doc_sbw_open"
    /\ IF exists
       THEN pc' = "readline" /\ UNCHANGED <<status, ret>>
       ELSE Fail(GB_ERROR_OPEN_SBW_CANNOT_OPEN_FILE)
    /\ UNCHANGED <<entry, input, exists, src, pos, version, first_line, doc, n, i,
                   exc, csv, peak, fmt>>

\* first_line = fp.readline()
SniffReadline ==
    /\ pc = "readline"
    /\ first_line' = ReadLine(src, pos)
    /\ pos' = AfterReadLine(src, pos)
    /\ peak' = AfterReadLine(src, pos)
    /\ pc' = "rewind"
    /\ UNCHANGED <<entry, input, exists, src, version, status, doc, n, i, ret, exc,
                   csv, fmt>>

\* fp.seek(0); version = 0
SniffRewind ==
    /\ pc = "rewind"
    /\ pos' = 0
    /\ version' = 0
    /\ pc' = "startswith"
    /\ UNCHANGED <<entry, input, exists, src, first_line, status, doc, n, i, ret,
                   exc, csv, peak, fmt>>

\* if first_line.startswith(b'"SBW 2"') or ...: version = 2
\* else: fp.seek(12)
SniffFirstLine ==
    /\ pc = "startswith"
    /\ IF StartsWith(first_line, Magic2) \/ StartsWith(first_line, Magic3)
       THEN version' = 2 /\ pc' = "dispatch" /\ UNCHANGED <<pos, peak>>
       ELSE pos' = 12 /\ peak' = 12 /\ pc' = "probe" /\ UNCHANGED version
    /\ UNCHANGED <<entry, input, exists, src, first_line, status, doc, n, i, ret,
                   exc, csv, fmt>>

\* A faulty variant: the probe's fp.seek(0) is left out.
AfterProbeNoSeek == AfterRead(src, pos, SBW4_CBOND_SIZE)

\* The position the probe leaves: fp.seek(0).
AfterProbe == 0

\* cbond = fp.read(SBW4_CBOND_SIZE); if cbond.startswith(b'CBond'):
\* version = 4; fp.seek(0)
SniffProbe ==
    /\ pc = "probe"
    /\ version' = IF StartsWith(Read(src, pos, SBW4_CBOND_SIZE), CBond) THEN 4 ELSE version
    /\ peak' = AfterRead(src, pos, SBW4_CBOND_SIZE)
    /\ pos' = AfterProbe
    /\ pc' = "dispatch"
    /\ UNCHANGED <<entry, input, exists, src, first_line, status, doc, n, i, ret,
                   exc, csv, fmt>>

\* if version == 2: return read_sbw2(fp, status) ... else: BAD_MAGIC
Dispatch ==
    /\ pc = "dispatch"
    /\ CASE version = 2 -> pc' = "sbw2" /\ UNCHANGED <<status, ret>>
         [] version = 4 -> pc' = "sbw4" /\ UNCHANGED <<status, ret>>
         [] OTHER -> Fail(GB_ERROR_OPEN_SBW_BAD_MAGIC)
    /\ UNCHANGED <<entry, input, exists, src, pos, version, first_line, doc, n, i,
                   exc, csv, peak, fmt>>

\* The caller invokes a decoder itself, with fp at the start of the file.
CallDecoder ==
    /\ pc = "call" /\ entry \in {"read_sbw2", "read_sbw4"}
    /\ pc' = IF entry = "read_sbw2" THEN "sbw2" ELSE "sbw4"
    /\ UNCHANGED <<entry, input, exists, src, pos, version, first_line, status, doc,
                   n, i, ret, exc, csv, peak, fmt>>

(* read_sbw2, lines 111-145 *)

\* doc = gb_doc_new(); status.code = GB_OK; the version line
Sbw2Magic ==
    /\ pc = "sbw2"
    /\ doc' = gb_doc_new
    /\ pos' = AfterReadLine(src, pos)
    /\ IF Strip(ReadLine(src, pos), BytesSpace) \in {Magic2, Magic3}
       THEN status' = GB_OK /\ pc' = "sbw2_title" /\ UNCHANGED ret
       ELSE Fail(GB_ERROR_OPEN_SBW_BAD_MAGIC)
    /\ UNCHANGED <<entry, input, exists, src, version, first_line, n, i, exc, csv,
                   peak, fmt>>

\* title_line = fp.readline().decode('utf-8').strip().strip('"')
Sbw2Title ==
    /\ pc = "sbw2_title"
    /\ pos' = AfterReadLine(src, pos)
    /\ IF Utf8Decode(ReadLine(src, pos)).ok
       THEN /\ doc' = [doc EXCEPT !.title =
                  Strip(Strip(Utf8Decode(ReadLine(src, pos)).text, StrSpace), QuoteChars)]
            /\ pc' = "sbw2_count"
            /\ UNCHANGED <<ret, exc>>
       ELSE Raise("UnicodeDecodeError") /\ UNCHANGED doc
    /\ UNCHANGED <<entry, input, exists, src, version, first_line, status, n, i, csv,
                   peak, fmt>>

\* fp.readline(), the redemption date; then the count line, whose
\* ValueError (UnicodeDecodeError is one) is caught.
Sbw2Count ==
    LET p1    == AfterReadLine(src, pos)
        text  == Utf8Decode(ReadLine(src, p1))
        count == IntParse(text.text)
    IN  /\ pc = "sbw2_count"
        /\ pos' = AfterReadLine(src, p1)
        /\ IF text.ok /\ count.ok
           THEN n' = count.val /\ i' = 0 /\ pc' = "sbw2_loop" /\ UNCHANGED <<status, ret>>
           ELSE Fail(GB_ERROR_OPEN_SBW_PARSE) /\ UNCHANGED <<n, i>>
        /\ UNCHANGED <<entry, input, exists, src, version, first_line, doc, exc, csv,
                       peak, fmt>>

\* A faulty variant: the second field is taken as the series and the third as
\* the denomination.
Sbw2BondSwapped(fields) ==
    gb_doc_bond_new(Strip(Strip(fields[2], StrSpace), QuoteChars),
                    Strip(Strip(fields[4], StrSpace), QuoteChars),
                    [type |-> "str", val |-> Strip(Strip(fields[3], StrSpace), QuoteChars)],
                    Strip(Strip(fields[1], StrSpace), QuoteChars))

\* sn, denom, series, idate = the first four fields, each .strip().strip('"')
Sbw2Bond(fields) ==
    gb_doc_bond_new(Strip(Strip(fields[3], StrSpace), QuoteChars),
                    Strip(Strip(fields[4], StrSpace), QuoteChars),
                    [type |-> "str", val |-> Strip(Strip(fields[2], StrSpace), QuoteChars)],
                    Strip(Strip(fields[1], StrSpace), QuoteChars))

\* One pass of `for _ in range(n)`.
Sbw2Line ==
    LET line   == Utf8Decode(ReadLine(src, pos))
        fields == Split(line.text, 44, 4)
    IN  /\ pc = "sbw2_loop" /\ i < n
        /\ pos' = AfterReadLine(src, pos)
        /\ CASE ~line.ok ->
                  Raise("UnicodeDecodeError") /\ UNCHANGED <<status, doc, i>>
             [] line.ok /\ Len(fields) < 4 ->
                  i' = i + 1 /\ UNCHANGED <<status, doc, ret, exc, pc>>
             [] line.ok /\ Len(fields) >= 4 /\ ~Sbw2Bond(fields).ok ->
                  Fail(GB_ERROR_OPEN_SBW_PARSE) /\ UNCHANGED <<doc, i, exc>>
             [] OTHER ->
                  /\ doc' = [doc EXCEPT !.bonds = Append(@, Sbw2Bond(fields).bond)]
                  /\ i' = i + 1
                  /\ UNCHANGED <<status, ret, exc, pc>>
        /\ UNCHANGED <<entry, input, exists, src, version, first_line, n, csv, peak,
                       fmt>>

\* return doc
Sbw2Return ==
    /\ pc = "sbw2_loop" /\ i >= n
    /\ ret' = "doc"
    /\ pc' = "returned"
    /\ UNCHANGED <<entry, input, exists, src, pos, version, first_line, status, doc,
                   n, i, exc, csv, peak, fmt>>

(* read_sbw4, lines 147-198 *)

Title4 ==
    Lit(<<"I", "m", "p", "o", "r", "t", "e", "d", " ", "S", "B", "W", "4", " ",
          "I", "n", "v", "e", "n", "t", "o", "r", "y">>)

\* The series codes kept, compared with series.upper().
KeptSeries == {Lit(<<"E">>), Lit(<<"S">>), Lit(<<"E", "E">>), Lit(<<"I">>)}

\* doc, title, status.code = GB_OK; the 12-byte header; the marker
Sbw4Head ==
    /\ pc = "sbw4"
    /\ doc' = [gb_doc_new EXCEPT !.title = Title4]
    /\ IF Len(Read(src, pos, 12)) < 12
       THEN /\ Fail(GB_ERROR_OPEN_SBW_PARSE)
            /\ pos' = AfterRead(src, pos, 12)
            /\ UNCHANGED <<n, i>>
       ELSE /\ status' = GB_OK
            /\ n' = U16(Read(src, pos, 12), 5)
            /\ i' = 0
            /\ pos' = AfterRead(src, pos + 12, SBW4_CBOND_SIZE)
            /\ pc' = "sbw4_loop"
            /\ UNCHANGED ret
    /\ UNCHANGED <<entry, input, exists, src, version, first_line, exc, csv, peak,
                   fmt>>

\* n_bytes = struct.unpack('<B', fp.read(1))[0]; fp.read(n_bytes) if any.
\* Unpacking no byte raises struct.error; a short body is taken as it is.
ReadPrefixed(bytes, p) ==
    LET lenb == Read(bytes, p, 1)
        body == IF lenb[1] > 0 THEN Read(bytes, p + 1, lenb[1]) ELSE <<>>
    IN  IF lenb = <<>>
        THEN [ok |-> FALSE, data |-> <<>>, pos |-> p]
        ELSE [ok |-> TRUE, data |-> body, pos |-> p + 1 + Len(body)]

\* A faulty variant: the notes are not read, so the serial number is read where
\* the notes are.
AfterNotesUnread(bytes, p) == p

\* The position after the notes field, whose bytes are read and dropped.
AfterNotes(bytes, p) == ReadPrefixed(bytes, p).pos

\* The reads of one pass of `for i in range(n_bonds)`, in their order: the
\* block, the notes, the serial number, the series, the two bytes between
\* records.  outcome is how the reads end.
Sbw4Reads(bytes, p, last) ==
    LET block   == Read(bytes, p, 84)
        p1      == p + Len(block)
        notes   == ReadPrefixed(bytes, p1)
        snf     == ReadPrefixed(bytes, AfterNotes(bytes, p1))
        sn      == Utf8Decode(snf.data)
        serf    == ReadPrefixed(bytes, snf.pos)
        series  == Utf8Decode(serf.data)
        outcome ==
            CASE Len(block) < 84 -> "short"
              [] ~notes.ok -> "struct.error"
              [] ~snf.ok -> "struct.error"
              [] ~sn.ok -> "UnicodeDecodeError"
              [] ~serf.ok -> "struct.error"
              [] ~series.ok -> "UnicodeDecodeError"
              [] OTHER -> "read"
    IN  [outcome |-> outcome,
         pos     |-> IF outcome = "short" THEN p1
                     ELSE IF outcome # "read" THEN p
                     ELSE IF last THEN serf.pos ELSE AfterRead(bytes, serf.pos, 2),
         denom   |-> IF outcome = "read" THEN U32(block, 1 + 4 * 6) ELSE 0,
         idate   |-> IF outcome = "read" THEN U32(block, 1 + 4 * 10) ELSE 0,
         sn      |-> IF outcome = "read" THEN sn.text ELSE <<>>,
         series  |-> IF outcome = "read" THEN series.text ELSE <<>>]

\* One pass of `for i in range(n_bonds)`.
Sbw4Bond ==
    LET r    == Sbw4Reads(src, pos, ~(i < n - 1))
        kept == Upper(r.series) \in KeptSeries
        d    == gb_date_fmt(r.idate)
        new  == gb_doc_bond_new(r.series, d.text, [type |-> "int", val |-> r.denom], r.sn)
    IN  /\ pc = "sbw4_loop" /\ i < n
        /\ pos' = r.pos
        /\ CASE r.outcome = "short" ->
                  Fail(GB_ERROR_OPEN_SBW_PARSE) /\ UNCHANGED <<doc, i, exc>>
             [] r.outcome \in {"struct.error", "UnicodeDecodeError"} ->
                  Raise(r.outcome) /\ UNCHANGED <<status, doc, i>>
             [] r.outcome = "read" /\ ~kept ->
                  i' = i + 1 /\ UNCHANGED <<status, doc, ret, exc, pc>>
             [] r.outcome = "read" /\ kept /\ ~d.ok ->
                  Raise(d.exc) /\ UNCHANGED <<status, doc, i>>
             [] r.outcome = "read" /\ kept /\ d.ok /\ ~new.ok ->
                  Fail(GB_ERROR_OPEN_SBW_PARSE) /\ UNCHANGED <<doc, i, exc>>
             [] OTHER ->
                  /\ doc' = [doc EXCEPT !.bonds = Append(@, new.bond)]
                  /\ i' = i + 1
                  /\ UNCHANGED <<status, ret, exc, pc>>
        /\ UNCHANGED <<entry, input, exists, src, version, first_line, n, csv, peak,
                       fmt>>

\* return doc
Sbw4Return ==
    /\ pc = "sbw4_loop" /\ i >= n
    /\ ret' = "doc"
    /\ pc' = "returned"
    /\ UNCHANGED <<entry, input, exists, src, pos, version, first_line, status, doc,
                   n, i, exc, csv, peak, fmt>>

(* export_sbw_to_csv, lines 211-225 *)

\* csv_output = doc.to_csv(), when the decode gave a document
ToCsv ==
    /\ pc = "returned" /\ ret = "doc" /\ status = GB_OK
    /\ csv' = to_csv(doc)
    /\ pc' = "exported"
    /\ UNCHANGED <<entry, input, exists, src, pos, version, first_line, status, doc,
                   n, i, ret, exc, peak, fmt>>

Next ==
    \/ OpenFile
    \/ SniffReadline
    \/ SniffRewind
    \/ SniffFirstLine
    \/ SniffProbe
    \/ Dispatch
    \/ CallDecoder
    \/ Sbw2Magic
    \/ Sbw2Title
    \/ Sbw2Count
    \/ Sbw2Line
    \/ Sbw2Return
    \/ Sbw4Head
    \/ Sbw4Bond
    \/ Sbw4Return
    \/ ToCsv

Spec == Init /\ [][Next]_vars

-----------------------------------------------------------------------------
(* The date codec called alone *)

\* Months since the epoch: the first years, 75 years on, the last month
\* of year 9999, the month after it, and a far one.
Months == (0..MaxMonths) \cup {900, 96704, 96705, 2000000000}

InitDate ==
    \E m \in Months :
        /\ entry = "gb_date_fmt"
        /\ input = [kind |-> "months", months |-> m]
        /\ exists = TRUE
        /\ src = <<>>
        /\ status = GB_OK
        /\ pos = 0
        /\ pc = "call"
        /\ version = 0
        /\ first_line = <<>>
        /\ doc = gb_doc_new
        /\ n = 0
        /\ i = 0
        /\ ret = "running"
        /\ exc = ""
        /\ csv = <<>>
        /\ peak = 0
        /\ fmt = <<>>

\* gb_date_fmt(months_since_epoch)
DateFmt ==
    /\ pc = "call" /\ entry = "gb_date_fmt"
    /\ IF gb_date_fmt(input.months).ok
       THEN /\ fmt' = gb_date_fmt(input.months).text
            /\ ret' = "str"
            /\ pc' = "returned"
            /\ UNCHANGED exc
       ELSE Raise(gb_date_fmt(input.months).exc) /\ UNCHANGED fmt
    /\ UNCHANGED <<entry, input, exists, src, pos, version, first_line, status, doc,
                   n, i, csv, peak>>

NextDate == DateFmt

SpecDate == InitDate /\ [][NextDate]_vars

-----------------------------------------------------------------------------
(* Properties *)

\* The call has ended: it returned, or an exception left it.
Ended == pc \in {"returned", "raised", "exported"}

\* text is MM/YYYY for the given month and year, read digit by digit.
IsMonthYear(text, month, year) ==
    /\ Len(text) = 7
    /\ text[3] = 47
    /\ \A k \in {1, 2, 4, 5, 6, 7} : text[k] \in DigitChars
    /\ 10 * (text[1] - 48) + (text[2] - 48) = month
    /\ 1000 * (text[4] - 48) + 100 * (text[5] - 48) + 10 * (text[6] - 48)
           + (text[7] - 48) = year

\* The calendar month m whole months after April 1941.
MonthAfterEpoch(m) == ((3 + m) % 12) + 1
YearAfterEpoch(m) == 1941 + ((3 + m) \div 12)

\* December 9999, the last month datetime holds, in months since the epoch.
LastMonth == (MAXYEAR - 1941) * 12 + 8

\* C10, as claimed: for every non-negative m, gb_date_fmt(m) returns MM/YYYY
\* with month ((3 + m) mod 12) + 1 and year 1941 + ((3 + m) div 12).
C10_EveryMonthFormats ==
    (entry = "gb_date_fmt" /\ Ended) =>
        /\ ret = "str"
        /\ IsMonthYear(fmt, MonthAfterEpoch(input.months), YearAfterEpoch(input.months))

\* C10, amended: for every m from 0 to LastMonth (12/9999), gb_date_fmt(m)
\* returns MM/YYYY with month ((3 + m) mod 12) + 1 and year
\* 1941 + ((3 + m) div 12), so 0 gives 04/1941, 9 gives 01/1942 and 12 gives
\* 04/1942; for a larger m it raises ValueError.
C10_MonthsInRangeFormat ==
    (entry = "gb_date_fmt" /\ Ended) =>
        /\ input.months <= LastMonth =>
              /\ ret = "str"
              /\ IsMonthYear(fmt, MonthAfterEpoch(input.months),
                             YearAfterEpoch(input.months))
        /\ input.months > LastMonth => ret = "raise" /\ exc = "ValueError"
        /\ input.months = 0 => fmt = Lit(<<"0", "4", "/", "1", "9", "4", "1">>)
        /\ input.months = 9 => fmt = Lit(<<"0", "1", "/", "1", "9", "4", "2">>)
        /\ input.months = 12 => fmt = Lit(<<"0", "4", "/", "1", "9", "4", "2">>)

\* C10's case: nine months after the epoch, past the turn of the year.
C10_Witness ==
    /\ entry = "gb_date_fmt" /\ pc = "returned"
    /\ input.months = 9
    /\ fmt = Lit(<<"0", "1", "/", "1", "9", "4", "2">>)

\* C1: no exception leaves gb_doc_sbw_open: the call ends with a Document,
\* CannotOpen, BadMagic or ParseError.
C1_NoExceptionEscapes ==
    (entry = "gb_doc_sbw_open" /\ Ended) =>
        \/ ret = "doc" /\ status = GB_OK
        \/ ret = "None" /\ status \in {GB_ERROR_OPEN_SBW_CANNOT_OPEN_FILE,
                                       GB_ERROR_OPEN_SBW_BAD_MAGIC,
                                       GB_ERROR_OPEN_SBW_PARSE}

\* C2: read_sbw4 on a file that announces n >= 1 records and is cut short
\* before the end of the n-th returns no Document and sets ParseError.
C2_ShortReadIsParseError ==
    (/\ entry = "read_sbw4" /\ input.kind = "v4" /\ Ended
     /\ Len(input.bonds) >= 1
     /\ input.cut < Len(Encode4(input.bonds))) =>
        ret = "None" /\ status = GB_ERROR_OPEN_SBW_PARSE

\* The two probes as C3 states them: the first line, trimmed, is the
\* quoted literal; the five bytes at offsets 12..16 are CBond.
FirstLineIsMagic == Strip(ReadLine(src, 0), BytesSpace) \in {Magic2, Magic3}
MarkerAt12 == Read(src, 12, 5) = CBond

\* C3: the sniffer picks the text decoder exactly when the trimmed first
\* line is "SBW 2" or "SBW 3", otherwise the binary one exactly when bytes
\* 12..16 are CBond; the decode gives BadMagic exactly when neither holds.
C3_SnifferProbes ==
    /\ (entry = "gb_doc_sbw_open" /\ pc = "dispatch") =>
          /\ version = 2 <=> FirstLineIsMagic
          /\ version = 4 <=> (~FirstLineIsMagic /\ MarkerAt12)
    /\ (entry = "gb_doc_sbw_open" /\ exists /\ Ended) =>
          ((ret = "None" /\ status = GB_ERROR_OPEN_SBW_BAD_MAGIC)
              <=> ~(FirstLineIsMagic \/ MarkerAt12))

\* What a sniff of bytes from position p finds: 2, 4, or 0.
Sniffed(bytes, p) ==
    IF StartsWith(ReadLine(bytes, p), Magic2) \/ StartsWith(ReadLine(bytes, p), Magic3)
    THEN 2
    ELSE IF StartsWith(Read(bytes, 12, SBW4_CBOND_SIZE), CBond) THEN 4 ELSE 0

\* C9: when gb_doc_sbw_open has sniffed the file, whatever it found and
\* however short the file, fp is back at offset 0: the decoder it calls
\* starts there, and a second sniff from where fp stands finds the same.
C9_SniffRestoresPosition ==
    /\ (entry = "gb_doc_sbw_open" /\ pc \in {"dispatch", "sbw2", "sbw4"}) =>
          pos = 0 /\ Sniffed(src, pos) = version
    /\ (entry = "gb_doc_sbw_open" /\ pc = "returned" /\ exists /\ version = 0) =>
          pos = 0

\* C9's case: the probe has read through byte 17 and the binary decoder is
\* about to be called.
C9_Witness ==
    /\ entry = "gb_doc_sbw_open" /\ pc = "sbw4"
    /\ peak = 17
    /\ pos = 0

\* The record lines read_sbw2 reads of a text file: the first `announced`.
LinesRead(inp) ==
    SubSeq(inp.lines, 1, Min(Len(inp.lines), inp.announced[1]))

\* A record line of at least four fields.
IsRecordLine(l) == Len(l.fields) >= 4

\* C4: on every return of gb_doc_sbw_open, read_sbw2 and read_sbw4 the
\* status is not GB_OK exactly when no Document is returned; and when a
\* record line read by the text decoder has a denomination that is no
\* number, the decode returns no Document and ParseError, whatever was
\* appended before.
C4_AllOrNothing ==
    /\ pc \in {"returned", "exported"} =>
          /\ ret \in {"doc", "None"}
          /\ status # GB_OK <=> ret = "None"
    /\ (/\ pc \in {"returned", "exported"}
        /\ input.kind = "v2"
        /\ input.announced # <<>>
        /\ \E k \in 1..Len(LinesRead(input)) :
              /\ IsRecordLine(LinesRead(input)[k])
              /\ LinesRead(input)[k].value = NoValue) =>
          ret = "None" /\ status = GB_ERROR_OPEN_SBW_PARSE

\* C4's case: the second record line has a denomination that is no number,
\* and the bond of the first was already appended.
C4_Witness ==
    /\ pc = "returned" /\ input.kind = "v2"
    /\ Len(input.lines) = 2 /\ input.announced = <<2>>
    /\ input.lines[1].value # NoValue /\ IsRecordLine(input.lines[1])
    /\ input.lines[2].value = NoValue /\ IsRecordLine(input.lines[2])
    /\ Len(doc.bonds) = 1
    /\ ret = "None" /\ status = GB_ERROR_OPEN_SBW_PARSE

\* A binary file that is whole, whose texts are UTF-8 and whose savings
\* bonds have issue dates the calendar holds.
WellFormed4(inp) ==
    /\ inp.kind = "v4"
    /\ inp.cut = Len(Encode4(inp.bonds))
    /\ \A k \in 1..Len(inp.bonds) :
          /\ Utf8Decode(inp.bonds[k].sn).ok
          /\ Utf8Decode(inp.bonds[k].series).ok
          /\ inp.bonds[k].keep => inp.bonds[k].idate <= LastMonth

IsKept4(b) == b.keep

\* f is the float of the whole number k.
IsWhole(f, k) == f.kind = "finite" /\ ~f.neg /\ f.mant * Pow(10, f.exp) = k

\* bond is the record the decoder makes of the on-disk record b.
IsBondOf4(bond, b) ==
    /\ bond.series = Utf8Decode(b.series).text
    /\ bond.sn = Utf8Decode(b.sn).text
    /\ IsWhole(bond.denom, b.denom)
    /\ IsMonthYear(bond.idate, MonthAfterEpoch(b.idate), YearAfterEpoch(b.idate))

\* C5: of a well-formed binary file read_sbw4 returns the Document of
\* exactly the records of series E, S, EE or I (in any case), in file
\* order, each with its own denomination, issue date and serial number;
\* the others are dropped without error and without shifting what follows.
C5_KeptRecordsInOrder ==
    (/\ entry \in {"read_sbw4", "gb_doc_sbw_open"}
     /\ WellFormed4(input) /\ Ended) =>
        /\ ret = "doc" /\ status = GB_OK
        /\ Len(doc.bonds) = Len(SelectSeq(input.bonds, IsKept4))
        /\ \A k \in 1..Len(doc.bonds) :
              IsBondOf4(doc.bonds[k], SelectSeq(input.bonds, IsKept4)[k])

\* C5's case: a dropped record with an empty series, then a kept one.
C5_Witness ==
    /\ entry = "read_sbw4" /\ pc = "returned" /\ WellFormed4(input)
    /\ Len(input.bonds) = 2
    /\ input.bonds[1].series = <<>>
    /\ input.bonds[2].keep
    /\ Len(doc.bonds) = 1
    /\ doc.bonds[1].series = Lit(<<"e", "e">>)
    /\ doc.bonds[1].idate = Lit(<<"0", "1", "/", "1", "9", "4", "2">>)

\* A text file whose count line is an integer and whose record lines, as
\* far as they are read, have numbers for denominations.
Valid2(inp) ==
    /\ inp.kind = "v2"
    /\ inp.announced # <<>>
    /\ \A k \in 1..Len(LinesRead(inp)) :
          IsRecordLine(LinesRead(inp)[k]) => LinesRead(inp)[k].value # NoValue

\* bond is the record the decoder makes of the record line l.
IsBondOf2(bond, l) ==
    /\ bond.sn = l.fields[1]
    /\ bond.denom = l.value
    /\ bond.series = l.fields[3]
    /\ bond.idate = l.fields[4]

\* C6: of a valid text file whose count line is n, read_sbw2 returns the
\* Document of one bond per record line of at least four fields among the
\* n lines, in file order, made of its first four fields, trimmed, what
\* follows the fourth dropped; a line of fewer fields is skipped.
C6_OneBondPerRecordLine ==
    (/\ entry \in {"read_sbw2", "gb_doc_sbw_open"}
     /\ Valid2(input) /\ Ended) =>
        /\ ret = "doc" /\ status = GB_OK
        /\ Len(doc.bonds) = Len(SelectSeq(LinesRead(input), IsRecordLine))
        /\ \A k \in 1..Len(doc.bonds) :
              IsBondOf2(doc.bonds[k], SelectSeq(LinesRead(input), IsRecordLine)[k])

\* C6's case: a line of three fields, skipped, then a record line with
\* blanks, quotes and a fifth and sixth field.
C6_Witness ==
    /\ entry = "read_sbw2" /\ pc = "returned" /\ Valid2(input)
    /\ Len(input.lines) = 2 /\ input.announced = <<2>>
    /\ Len(input.lines[1].fields) = 3
    /\ input.lines[2].deco = "spaced" /\ input.lines[2].tail # <<>>
    /\ Len(doc.bonds) = 1
    /\ doc.bonds[1].sn = Lit(<<"B", "2">>)
    /\ doc.bonds[1].denom = Finite(FALSE, 25, -1)

\* f is a number that is not negative.
IsNonNegative(f) == f.kind = "finite" /\ (~f.neg \/ f.mant = 0)

\* C7, as claimed: every bond of a returned Document has a denomination
\* that is a non-negative number.
C7_DenominationNonNegative ==
    ret = "doc" => \A k \in 1..Len(doc.bonds) : IsNonNegative(doc.bonds[k].denom)

\* C7, amended: every bond of a returned Document has a denomination that
\* is a float: a non-negative whole number when decoded from a binary file,
\* and whatever float() makes of the text when decoded from a text file,
\* a negative number, nan or inf included; a denomination that is not the
\* text of a float never becomes a bond (at no point of the decode).
C7_DenominationIsFloat ==
    /\ ret = "doc" =>
          \A k \in 1..Len(doc.bonds) :
              /\ doc.bonds[k].denom.kind \in {"finite", "inf", "nan"}
              /\ input.kind = "v4" => IsNonNegative(doc.bonds[k].denom)
    /\ input.kind = "v2" =>
          \A k \in 1..Len(doc.bonds) :
              \E j \in 1..Len(input.lines) :
                  /\ input.lines[j].fields[1] = doc.bonds[k].sn
                  /\ input.lines[j].value = doc.bonds[k].denom
                  /\ input.lines[j].value # NoValue

\* C7's case: a Document returned with a bond of denomination -5.
C7_Witness ==
    /\ ret = "doc" /\ input.kind = "v2"
    /\ \E k \in 1..Len(doc.bonds) : doc.bonds[k].denom = Finite(TRUE, 5, 0)

\* The text of a calendar month: MM/YYYY.
MonthYear(month, year) ==
    (IF month < 10 THEN <<48>> ELSE <<>>) \o DecStr(month) \o <<47>> \o DecStr(year)

\* No character of the field is one csv.writer quotes a field for.
IsPlain(text) == \A k \in 1..Len(text) : text[k] \notin {44, 34, 13, 10}

\* The whole number a finite float with no fraction stands for.
WholeOf(f) == f.mant * Pow(10, f.exp)

\* The rows after the header are one per bond of the Document, in its
\* order, each the series, the denomination as text(bond), the serial
\* number and the issue date, comma-separated (for fields that need no
\* quoting).
RowsAre(text(_)) ==
    /\ Len(csv) = 1 + Len(doc.bonds)
    /\ csv[1] = Lit(<<"S", "e", "r", "i", "e", "s", ",", "D", "e", "n", "o", "m", "i",
                      "n", "a", "t", "i", "o", "n", ",", "S", "e", "r", "i", "a", "l",
                      " ", "N", "u", "m", "b", "e", "r", ",", "I", "s", "s", "u", "e",
                      " ", "D", "a", "t", "e">>)
    /\ \A k \in 1..Len(doc.bonds) :
          (IsPlain(doc.bonds[k].series) /\ IsPlain(doc.bonds[k].sn)) =>
              csv[k + 1] = doc.bonds[k].series \o <<44>> \o text(doc.bonds[k])
                               \o <<44>> \o doc.bonds[k].sn \o <<44>> \o doc.bonds[k].idate

\* The denomination written as the integer read from the file: 50.
AsInteger(bond) == DecStr(WholeOf(bond.denom))

\* The denomination written as the float it is stored as: 50.0.
AsFloat(bond) == DecStr(WholeOf(bond.denom)) \o <<46, 48>>

\* The file of the one record E, 50, issue date 0, A1.
IsExample4(inp) ==
    /\ WellFormed4(inp)
    /\ Len(inp.bonds) = 1
    /\ inp.bonds[1].series = Lit(<<"E">>) /\ inp.bonds[1].denom = 50
    /\ inp.bonds[1].idate = 0 /\ inp.bonds[1].sn = Lit(<<"A", "1">>)

\* C8, as claimed: the CSV of a Document decoded from a binary file has one
\* row per kept record, in order, as Series, Denomination, Serial Number,
\* Issue Date, the denomination as the integer read (50) and the date as
\* MM/YYYY; the example gives E,50,A1,04/1941.
C8_RowsWithIntegerDenomination ==
    (pc = "exported" /\ input.kind = "v4") =>
        /\ RowsAre(AsInteger)
        /\ IsExample4(input) =>
              csv[2] = Lit(<<"E", ",", "5", "0", ",", "A", "1", ",",
                             "0", "4", "/", "1", "9", "4", "1">>)

\* C8, amended: the same, with the denomination written as the float the
\* record stores, the integer read followed by .0 (50 is written 50.0);
\* the example gives E,50.0,A1,04/1941.
C8_RowsWithFloatDenomination ==
    (pc = "exported" /\ input.kind = "v4") =>
        /\ RowsAre(AsFloat)
        /\ WellFormed4(input) =>
              /\ Len(csv) = 1 + Len(SelectSeq(input.bonds, IsKept4))
              /\ \A k \in 1..(Len(csv) - 1) :
                    LET b == SelectSeq(input.bonds, IsKept4)[k]
                    IN  doc.bonds[k].idate =
                            MonthYear(MonthAfterEpoch(b.idate), YearAfterEpoch(b.idate))
        /\ IsExample4(input) =>
              csv[2] = Lit(<<"E", ",", "5", "0", ".", "0", ",", "A", "1", ",",
                             "0", "4", "/", "1", "9", "4", "1">>)

\* C8's case: the example file, decoded and written.
C8_Witness ==
    /\ pc = "exported" /\ IsExample4(input)
    /\ csv[2] = Lit(<<"E", ",", "5", "0", ".", "0", ",", "A", "1", ",",
                      "0", "4", "/", "1", "9", "4", "1">>)

====
